---- MODULE Spec2Model ----
(***************************************************************************)
(* A model of the kftdi interface transport (src/src/lib.rs) and of the    *)
(* MPSSE protocol driver built on it (src/src/mpsse.rs).                   *)
(*                                                                         *)
(* Every async fn is a frame on its task's call stack; every await point   *)
(* (a lock acquisition, a control transfer, a bulk submission and its      *)
(* completion) is one action.  The device is the environment: it chooses   *)
(* the status and the bytes of every transfer it completes.                *)
(***************************************************************************)
EXTENDS Integers, Sequences, FiniteSets, TLC

VARIABLES
    stack,        \* per task: the frames of the async fns it is inside
    read_buffer,  \* Interface::read_buffer: (Vec<u8>, usize)
    lock,         \* the three tokio Mutexes: who holds each guard
    pending,      \* per endpoint: the transfers submitted and not yet completed
    bitmode,      \* the chip's current bitmode
    num,          \* Interface::num, the 0-based port index
    trace,        \* per task: what its current top-level call has sent the device
    wire,         \* the bulk-out transfers the device has completed, in order
    stream,       \* payload bytes read_all has received from bulk-in, in order
    delivered,    \* bytes read_all has copied into caller spans, in order
    issued,       \* per task: the bufs its write_all calls were given, in order
    calls,        \* top-level calls started
    xfers,        \* bulk-in transfers submitted
    device_type,  \* Interface::device_type, the chip family
    host,         \* the USB devices the host lists, in its order
    out           \* the last call of a fn that does no transfer, and its result

vars == <<stack, read_buffer, lock, pending, bitmode, num, trace, wire,
          stream, delivered, issued, calls, xfers, device_type, host, out>>

\* What the transfers of an open transport leave alone.
api == <<device_type, host, out>>

----------------------------------------------------------------------------
(* Bounds of the model.                                                    *)

MaxCalls == 3
MaxSeqCalls == 2
MaxTransfers == 4
MaxRead == 3
MaxStream == 4
max_packet_size == 5
MaxDevices == 2

Tasks == {"t1", "t2"}
Ports == {0, 1}
\* Payload byte values the device may send.
Bytes == {171, 250}
\* The modem/line status pair that starts every bulk-in packet.
StatusHeader == <<50, 96>>

----------------------------------------------------------------------------
(* Constants of the program.                                               *)

EnableLoopback == 132
DisableLoopback == 133
Synchronize == 171
BadCommand == 250

BitmodeReset == 0
BitmodeMpsse == 2

RequestReset == 0
RequestSetBitmode == 11

Free == "free"
\* No fn of the enumerator or of the pure helpers has been called.
NoCall == [op |-> "none"]

Min(a, b) == IF a < b THEN a ELSE b

----------------------------------------------------------------------------
(* What the device is sent.                                                *)

ControlOut(request, value, index) ==
    [kind |-> "control_out", request |-> request, value |-> value,
     index |-> index, data |-> <<>>]

\* A bulk-in transfer of a buffer of len bytes.
BulkIn(len) ==
    [kind |-> "bulk_in", request |-> 0, value |-> len, index |-> 0, data |-> <<>>]

BulkOut(data) ==
    [kind |-> "bulk_out", request |-> 0, value |-> 0, index |-> 0, data |-> data]

\* The control packet each control-out fn builds.
ControlPkt(fn, data, port) ==
    CASE fn = "purge_rx" -> ControlOut(RequestReset, 1, port + 1)
      [] fn = "purge_tx" -> ControlOut(RequestReset, 2, port + 1)
      [] fn = "set_bitmode" ->
            ControlOut(RequestSetBitmode, data[1] + data[2] * 256, port + 1)

----------------------------------------------------------------------------
(* Frames.                                                                 *)

\* n: read_all's span length, or a composite fn's current step.
\* data: write_all's buf, read_all's span as filled so far, set_bitmode's
\* (bitmask, bitmode), synchronize_mpsse's response.
\* mark, dmark: how much had been sent and delivered when the fn was called.
\* failed: one of read_all's transfers completed with an error status.
Frame(fn, pc, n, data, mark) ==
    [fn |-> fn, pc |-> pc, n |-> n, data |-> data, res |-> "none",
     mark |-> mark, dmark |-> Len(delivered), failed |-> FALSE]

Entry(fn) ==
    CASE fn = "read_all" -> "lock_read_buffer"
      [] fn = "write_all" -> "lock_ep_out"
      [] fn \in {"purge_rx", "purge_tx", "set_bitmode"} -> "control_out"
      [] OTHER -> "call"

CallOf(fn, n, data) == [fn |-> fn, n |-> n, data |-> data]

\* A purge that clears the transmit side first.
purge_all_tx_first == << CallOf("purge_tx", 0, <<>>), CallOf("purge_rx", 0, <<>>) >>

purge_all == << CallOf("purge_rx", 0, <<>>), CallOf("purge_tx", 0, <<>>) >>

synchronize_mpsse ==
    << CallOf("write_all", 0, <<EnableLoopback, Synchronize, DisableLoopback>>),
       CallOf("read_all", 2, <<>>) >>

\* An initialization that runs the handshake before the switch to MPSSE.
initialize_mpsse_sync_early ==
    << CallOf("purge_all", 1, <<>>),
       CallOf("set_bitmode", 0, <<0, BitmodeReset>>),
       CallOf("purge_all", 1, <<>>),
       CallOf("synchronize_mpsse", 1, <<>>),
       CallOf("set_bitmode", 0, <<0, BitmodeMpsse>>),
       CallOf("purge_all", 1, <<>>) >>

initialize_mpsse ==
    << CallOf("purge_all", 1, <<>>),
       CallOf("set_bitmode", 0, <<0, BitmodeReset>>),
       CallOf("set_bitmode", 0, <<0, BitmodeMpsse>>),
       CallOf("purge_all", 1, <<>>),
       CallOf("synchronize_mpsse", 1, <<>>),
       CallOf("purge_all", 1, <<>>) >>

Body(fn) ==
    CASE fn = "purge_all" -> purge_all
      [] fn = "synchronize_mpsse" -> synchronize_mpsse
      [] fn = "initialize_mpsse" -> initialize_mpsse

Depth(t) == Len(stack[t])
Top(t) == stack[t][Depth(t)]
Running(t, fn, pc) == Depth(t) > 0 /\ Top(t).fn = fn /\ Top(t).pc = pc
SetTop(t, f) == [stack EXCEPT ![t][Depth(t)] = f]

----------------------------------------------------------------------------
(* Bulk-in framing.                                                        *)

\* slice::chunks(size)
RECURSIVE Chunks(_, _)
Chunks(buffer, size) ==
    IF Len(buffer) = 0 THEN <<>>
    ELSE IF Len(buffer) <= size THEN <<buffer>>
    ELSE <<SubSeq(buffer, 1, size)>> \o
         Chunks(SubSeq(buffer, size + 1, Len(buffer)), size)

\* A chunk without its status header drops the 2-byte header, not 1 byte.
ChunkPayloadKeepsStatus(chunk) == SubSeq(chunk, 2, Len(chunk))

\* let res = &chunk[2..];
ChunkPayload(chunk) == SubSeq(chunk, 3, Len(chunk))

\* The body of read_all's loop over the chunks of one completed transfer:
\* span is the caller's span as filled so far, want its length, old the
\* read-ahead Vec.
RECURSIVE CopyChunks(_, _, _, _)
CopyChunks(chunks, want, span, old) ==
    IF chunks = <<>> THEN [span |-> span, old |-> old]
    ELSE LET chunk == Head(chunks) IN
         IF Len(chunk) > 2
         THEN LET res == ChunkPayload(chunk)
                  buflen == want - Len(span)
                  copylen == Min(Len(res), buflen)
                  span2 == span \o SubSeq(res, 1, copylen)
                  rest == SubSeq(res, copylen + 1, Len(res))
                  old2 == IF want - Len(span2) = 0 /\ rest # <<>>
                          THEN old \o rest ELSE old
              IN CopyChunks(Tail(chunks), want, span2, old2)
         ELSE CopyChunks(Tail(chunks), want, span, old)

\* What the device can put in a transfer of up to len bytes: the status
\* header and then payload, cut anywhere.
RECURSIVE SeqsOf(_, _)
SeqsOf(S, k) ==
    IF k = 0 THEN {<<>>}
    ELSE LET shorter == SeqsOf(S, k - 1)
         IN shorter \cup {Append(s, b) : s \in {x \in shorter : Len(x) = k - 1}, b \in S}

\* The buffers a transfer of len bytes can come back with, carrying one of
\* the given payloads or cut short of any.
RawBuffers(len, payloads) ==
    {StatusHeader \o p : p \in {q \in payloads : Len(q) + 2 <= len}}
    \cup {SubSeq(StatusHeader, 1, k) : k \in 0..Min(len, 2)}

AllPayloads == SeqsOf(Bytes, max_packet_size - 2)

Unconsumed == SubSeq(read_buffer.buf, read_buffer.cur + 1, Len(read_buffer.buf))

----------------------------------------------------------------------------
Init ==
    /\ stack = [t \in Tasks |-> <<>>]
    /\ read_buffer = [buf |-> <<>>, cur |-> 0]
    /\ lock = [l \in {"read_buffer", "ep_in", "ep_out"} |-> Free]
    /\ pending = [e \in {"ep_in", "ep_out"} |-> <<>>]
    /\ bitmode = BitmodeReset
    /\ num \in Ports
    /\ trace = [t \in Tasks |-> <<>>]
    /\ wire = <<>>
    /\ stream = <<>>
    /\ delivered = <<>>
    /\ issued = [t \in Tasks |-> <<>>]
    /\ calls = 0
    /\ xfers = 0
    /\ device_type = "FT4232H"
    /\ host = <<>>
    /\ out = NoCall

----------------------------------------------------------------------------
(* Calls and returns.                                                      *)

\* A task with nothing running calls one of the transport's fns.
StartCall(t, c, max) ==
    /\ Depth(t) = 0
    /\ calls < max
    /\ stack' = [stack EXCEPT ![t] = <<Frame(c.fn, Entry(c.fn), c.n, c.data, 0)>>]
    /\ issued' = IF c.fn = "write_all"
                 THEN [issued EXCEPT ![t] = Append(@, c.data)] ELSE issued
    /\ calls' = calls + 1
    /\ UNCHANGED <<api, read_buffer, lock, pending, bitmode, num, trace, wire,
                   stream, delivered, xfers>>

\* A composite fn (purge_all, synchronize_mpsse, initialize_mpsse) awaits
\* its next step.
Call(t) ==
    /\ Depth(t) > 0
    /\ Top(t).pc = "call"
    /\ LET c == Body(Top(t).fn)[Top(t).n]
       IN /\ stack' = [stack EXCEPT
                         ![t] = Append(@, Frame(c.fn, Entry(c.fn), c.n, c.data,
                                                Len(trace[t])))]
          /\ issued' = IF c.fn = "write_all"
                       THEN [issued EXCEPT ![t] = Append(@, c.data)] ELSE issued
    /\ UNCHANGED <<api, read_buffer, lock, pending, bitmode, num, trace, wire, stream,
                   delivered, calls, xfers>>

\* A write_all that takes the in-endpoint's Mutex.
WriteGuardIsEpIn == "ep_in"

\* The Mutex write_all locks: self.ep_out.
WriteGuard == "ep_out"

\* Guards that are never dropped.
GuardsLeaked(fn) == {}

\* The guards a fn holds until it returns.
Guards(fn) ==
    CASE fn = "read_all" -> {"read_buffer"}
      [] fn = "purge_rx" -> {"ep_in"}
      [] fn = "write_all" -> {WriteGuard}
      [] OTHER -> {}

\* `callee().await?` and the statement after it.
AfterCall(caller, callee) ==
    IF callee.res = "err" THEN [caller EXCEPT !.pc = "ret", !.res = "err"]
    ELSE IF caller.n < Len(Body(caller.fn)) THEN [caller EXCEPT !.n = @ + 1]
    ELSE IF caller.fn = "synchronize_mpsse"
         THEN [caller EXCEPT !.pc = "check", !.data = callee.data]
    ELSE [caller EXCEPT !.pc = "ret", !.res = "ok"]

\* A fn returns: its guards drop and its caller goes on.
Return(t) ==
    /\ Depth(t) > 0
    /\ Top(t).pc = "ret"
    /\ lock' = [l \in DOMAIN lock |->
                  IF lock[l] = t /\ l \in Guards(Top(t).fn) THEN Free ELSE lock[l]]
    /\ stack' = [stack EXCEPT ![t] =
                  IF Depth(t) = 1 THEN <<>>
                  ELSE Append(SubSeq(@, 1, Depth(t) - 2),
                              AfterCall(@[Depth(t) - 1], Top(t)))]
    /\ trace' = IF Depth(t) = 1 THEN [trace EXCEPT ![t] = <<>>] ELSE trace
    /\ UNCHANGED <<api, read_buffer, pending, bitmode, num, wire, stream, delivered,
                   issued, calls, xfers>>

----------------------------------------------------------------------------
(* read_all                                                                *)

\* A loop that stops as soon as anything has arrived.
SpanStillEmpty(span, want) == Len(span) = 0 /\ want # 0

\* while !buf.is_empty(): the span still wants bytes.
SpanWantsMore(span, want) == Len(span) # want

\* A drain that throws the buffer away whenever it is used.
ServeFromBufferAndClear(rb, want) ==
    LET avail == IF Len(rb.buf) > rb.cur THEN Len(rb.buf) - rb.cur ELSE 0
        copylen == IF avail > 0 /\ want > 0 THEN Min(want, avail) ELSE 0
    IN [span |-> SubSeq(rb.buf, rb.cur + 1, rb.cur + copylen),
        rb |-> [buf |-> <<>>, cur |-> 0]]

\* A drain that only advances the cursor and never resets the buffer.
ServeFromBufferNoReset(rb, want) ==
    LET avail == IF Len(rb.buf) > rb.cur THEN Len(rb.buf) - rb.cur ELSE 0
        copylen == IF avail > 0 /\ want > 0 THEN Min(want, avail) ELSE 0
    IN [span |-> SubSeq(rb.buf, rb.cur + 1, rb.cur + copylen),
        rb |-> [buf |-> rb.buf, cur |-> rb.cur + copylen]]

\* The part of a span of `want` bytes served from the read-ahead buffer rb,
\* and the buffer afterwards: cleared when the span still wants more.
ServeFromBuffer(rb, want) ==
    LET avail == IF Len(rb.buf) > rb.cur THEN Len(rb.buf) - rb.cur ELSE 0
        copylen == IF avail > 0 /\ want > 0 THEN Min(want, avail) ELSE 0
        span == SubSeq(rb.buf, rb.cur + 1, rb.cur + copylen)
    IN [span |-> span,
        rb |-> IF want - copylen > 0
               THEN [buf |-> <<>>, cur |-> 0]
               ELSE [buf |-> rb.buf, cur |-> rb.cur + copylen]]

\* A read_all that goes on without the read_buffer guard.
LockReadBufferWithoutGuard(t) ==
    /\ Running(t, "read_all", "lock_read_buffer")
    /\ LET r == ServeFromBuffer(read_buffer, Top(t).n)
           done == ~SpanWantsMore(r.span, Top(t).n)
       IN /\ read_buffer' = r.rb
          /\ delivered' = delivered \o r.span
          /\ stack' = SetTop(t, [Top(t) EXCEPT
                                   !.data = r.span,
                                   !.pc = IF done THEN "ret" ELSE "lock_ep_in",
                                   !.res = IF done THEN "ok" ELSE "none"])
    /\ UNCHANGED <<api, lock, pending, bitmode, num, trace, wire, stream, issued,
                   calls, xfers>>

\* let mut oldbuf = self.read_buffer.lock().await; the two ifs before the
\* loop, and the loop's first test.  The guard is held until read_all returns.
LockReadBuffer(t) ==
    /\ Running(t, "read_all", "lock_read_buffer")
    /\ lock["read_buffer"] = Free
    /\ lock' = [lock EXCEPT !["read_buffer"] = t]
    /\ LET r == ServeFromBuffer(read_buffer, Top(t).n)
           done == ~SpanWantsMore(r.span, Top(t).n)
       IN /\ read_buffer' = r.rb
          /\ delivered' = delivered \o r.span
          /\ stack' = SetTop(t, [Top(t) EXCEPT
                                   !.data = r.span,
                                   !.pc = IF done THEN "ret" ELSE "lock_ep_in",
                                   !.res = IF done THEN "ok" ELSE "none"])
    /\ UNCHANGED <<api, pending, bitmode, num, trace, wire, stream, issued, calls,
                   xfers>>

\* read_all and purge_rx: let mut ep_in = self.ep_in.lock().await;
\* let buffer = ep_in.allocate(self.max_packet_size); ep_in.submit(buffer);
SubmitIn(t) ==
    /\ Depth(t) > 0
    /\ Top(t).fn \in {"read_all", "purge_rx"}
    /\ Top(t).pc = "lock_ep_in"
    /\ lock["ep_in"] = Free
    /\ xfers < MaxTransfers
    /\ lock' = [lock EXCEPT !["ep_in"] = t]
    /\ xfers' = xfers + 1
    /\ pending' = [pending EXCEPT
                     !["ep_in"] = Append(@, [by |-> t, len |-> max_packet_size,
                                             data |-> <<>>])]
    /\ trace' = [trace EXCEPT ![t] = Append(@, BulkIn(max_packet_size))]
    /\ stack' = SetTop(t, [Top(t) EXCEPT !.pc = "next_complete"])
    /\ UNCHANGED <<api, read_buffer, bitmode, num, wire, stream, delivered, issued,
                   calls>>

\* The payload of a received buffer: each chunk's bytes after its header.
RECURSIVE Payload(_)
Payload(chunks) ==
    IF chunks = <<>> THEN <<>>
    ELSE (IF Len(Head(chunks)) > 2
          THEN SubSeq(Head(chunks), 3, Len(Head(chunks))) ELSE <<>>)
         \o Payload(Tail(chunks))

\* let raw_res = ep_in.next_complete().await; the for loop over its chunks;
\* the end of the while body, where the ep_in guard drops.
ReadComplete(t, payloads) ==
    /\ Running(t, "read_all", "next_complete")
    /\ pending["ep_in"] # <<>>
    /\ \E status \in {"ok", "err"}, raw \in RawBuffers(Head(pending["ep_in"]).len, payloads) :
        LET chunks == Chunks(raw, max_packet_size)
            r == CopyChunks(chunks, Top(t).n, Top(t).data, read_buffer.buf)
            done == ~SpanWantsMore(r.span, Top(t).n)
        IN /\ Len(stream) + Len(Payload(chunks)) <= MaxStream
           /\ read_buffer' = [read_buffer EXCEPT !.buf = r.old]
           /\ stream' = stream \o Payload(chunks)
           /\ delivered' = delivered \o
                             SubSeq(r.span, Len(Top(t).data) + 1, Len(r.span))
           /\ stack' = SetTop(t, [Top(t) EXCEPT
                                    !.data = r.span,
                                    !.failed = @ \/ status = "err",
                                    !.pc = IF done THEN "ret" ELSE "lock_ep_in",
                                    !.res = IF done THEN "ok" ELSE "none"])
    /\ pending' = [pending EXCEPT !["ep_in"] = Tail(@)]
    /\ lock' = [lock EXCEPT !["ep_in"] = Free]
    /\ UNCHANGED <<api, bitmode, num, trace, wire, issued, calls, xfers>>

ReadCalls == {CallOf("read_all", n, <<>>) : n \in 0..MaxRead}

ReadNext ==
    \/ \E c \in ReadCalls : StartCall("t1", c, MaxCalls)
    \/ LockReadBuffer("t1")
    \/ SubmitIn("t1")
    \/ ReadComplete("t1", AllPayloads)
    \/ Return("t1")

\* One caller that only reads.
ReadSpec == Init /\ [][ReadNext]_vars

----------------------------------------------------------------------------
(* Control transfers, purge_rx, write_all, synchronize_mpsse.              *)

\* purge_rx, purge_tx, set_bitmode: self.interface.control_out(pkt, 100 ms)
\* .await?  The chip takes the mode from the high byte of a SetBitmode value.
ControlTransfer(t) ==
    /\ Depth(t) > 0
    /\ Top(t).pc = "control_out"
    /\ \E status \in {"ok", "err"} :
        LET pkt == ControlPkt(Top(t).fn, Top(t).data, num)
        IN /\ trace' = [trace EXCEPT ![t] = Append(@, pkt)]
           /\ bitmode' = IF pkt.request = RequestSetBitmode /\ status = "ok"
                          THEN pkt.value \div 256 ELSE bitmode
           /\ stack' = SetTop(t,
                  IF status = "ok" /\ Top(t).fn = "purge_rx"
                  THEN [Top(t) EXCEPT !.pc = "lock_ep_in"]
                  ELSE [Top(t) EXCEPT !.pc = "ret", !.res = status])
    /\ UNCHANGED <<api, read_buffer, lock, pending, num, wire, stream, delivered,
                   issued, calls, xfers>>

\* purge_rx: ep_in.next_complete().await.status?;  the bytes are thrown away.
PurgeComplete(t) ==
    /\ Running(t, "purge_rx", "next_complete")
    /\ pending["ep_in"] # <<>>
    /\ \E status \in {"ok", "err"} :
        stack' = SetTop(t, [Top(t) EXCEPT !.pc = "ret", !.res = status])
    /\ pending' = [pending EXCEPT !["ep_in"] = Tail(@)]
    /\ UNCHANGED <<api, read_buffer, lock, bitmode, num, trace, wire, stream,
                   delivered, issued, calls, xfers>>

\* A write that puts a length byte in front of the caller's bytes.
OutBufferFramed(buf) == <<Len(buf)>> \o buf

\* buf.into(): the transfer's bytes are the caller's.
OutBuffer(buf) == buf

\* A write_all that submits without taking the out-endpoint's Mutex.
SubmitOutWithoutGuard(t) ==
    /\ Running(t, "write_all", "lock_ep_out")
    /\ pending' = [pending EXCEPT
                     !["ep_out"] = Append(@, [by |-> t, len |-> Len(Top(t).data),
                                              data |-> OutBuffer(Top(t).data)])]
    /\ trace' = [trace EXCEPT ![t] = Append(@, BulkOut(OutBuffer(Top(t).data)))]
    /\ stack' = SetTop(t, [Top(t) EXCEPT !.pc = "next_complete"])
    /\ UNCHANGED <<api, read_buffer, lock, bitmode, num, wire, stream, delivered,
                   issued, calls, xfers>>

\* let mut ep_out = self.ep_out.lock().await; ep_out.submit(buf.into());
SubmitOut(t) ==
    /\ Running(t, "write_all", "lock_ep_out")
    /\ lock[WriteGuard] = Free
    /\ lock' = [lock EXCEPT ![WriteGuard] = t]
    /\ pending' = [pending EXCEPT
                     !["ep_out"] = Append(@, [by |-> t, len |-> Len(Top(t).data),
                                              data |-> OutBuffer(Top(t).data)])]
    /\ trace' = [trace EXCEPT ![t] = Append(@, BulkOut(OutBuffer(Top(t).data)))]
    /\ stack' = SetTop(t, [Top(t) EXCEPT !.pc = "next_complete"])
    /\ UNCHANGED <<api, read_buffer, bitmode, num, wire, stream, delivered, issued,
                   calls, xfers>>

\* ep_out.next_complete().await.status?;
WriteComplete(t) ==
    /\ Running(t, "write_all", "next_complete")
    /\ pending["ep_out"] # <<>>
    /\ \E status \in {"ok", "err"} :
        /\ stack' = SetTop(t, [Top(t) EXCEPT !.pc = "ret", !.res = status])
        /\ wire' = Append(wire, [by |-> Head(pending["ep_out"]).by,
                                 data |-> Head(pending["ep_out"]).data,
                                 status |-> status])
    /\ pending' = [pending EXCEPT !["ep_out"] = Tail(@)]
    /\ UNCHANGED <<api, read_buffer, lock, bitmode, num, trace, stream, delivered,
                   issued, calls, xfers>>

\* A handshake test that looks at the first byte only.
SyncAcceptsFirstByte(buf) == buf[1] = BadCommand

\* buf[0] == 0xfa && buf[1] == Synchronize::byte()
SyncAccepts(buf) == buf[1] = BadCommand /\ buf[2] = Synchronize

\* synchronize_mpsse: the test of the two bytes read.
Check(t) ==
    /\ Running(t, "synchronize_mpsse", "check")
    /\ stack' = SetTop(t, [Top(t) EXCEPT
                             !.pc = "ret",
                             !.res = IF SyncAccepts(Top(t).data) THEN "ok" ELSE "err"])
    /\ UNCHANGED <<api, read_buffer, lock, pending, bitmode, num, trace, wire, stream,
                   delivered, issued, calls, xfers>>

\* The bufs callers write.
WriteBufs == {<<135>>, <<128, 0>>}

SeqCalls ==
    {CallOf("read_all", n, <<>>) : n \in 1..2}
    \cup {CallOf(fn, 1, <<>>) :
             fn \in {"purge_all", "synchronize_mpsse", "initialize_mpsse"}}

SeqNext ==
    \/ \E c \in SeqCalls : StartCall("t1", c, MaxSeqCalls)
    \/ Call("t1")
    \/ Return("t1")
    \/ LockReadBuffer("t1")
    \/ SubmitIn("t1")
    \/ ReadComplete("t1", AllPayloads)
    \/ ControlTransfer("t1")
    \/ PurgeComplete("t1")
    \/ SubmitOut("t1")
    \/ WriteComplete("t1")
    \/ Check("t1")

\* One caller that calls the transport's and the driver's fns one after
\* another.
SeqSpec == Init /\ [][SeqNext]_vars

ConcCalls ==
    {CallOf("read_all", 2, <<>>), CallOf("purge_all", 1, <<>>)}
    \cup {CallOf("write_all", 0, d) : d \in WriteBufs}

\* The payloads the device sends while callers run concurrently.
ConcPayloads == {<<>>, <<250, 171, 250>>}

Next ==
    \E t \in Tasks :
        \/ \E c \in ConcCalls : StartCall(t, c, MaxCalls)
        \/ Call(t)
        \/ Return(t)
        \/ LockReadBuffer(t)
        \/ SubmitIn(t)
        \/ ReadComplete(t, ConcPayloads)
        \/ ControlTransfer(t)
        \/ PurgeComplete(t)
        \/ SubmitOut(t)
        \/ WriteComplete(t)

\* Concurrent callers of one transport (clones of the Interface).
ConcInit == Init /\ num = 0

Spec == ConcInit /\ [][Next]_vars

\* The read_all calls concurrent readers make.
ReadersCalls == {CallOf("read_all", n, <<>>) : n \in 1..2}

\* The payloads the device sends concurrent readers.
ReadersPayloads == {<<>>, <<250>>, <<171, 250>>}

ReadersNext ==
    \E t \in Tasks :
        \/ \E c \in ReadersCalls : StartCall(t, c, MaxCalls)
        \/ LockReadBuffer(t)
        \/ SubmitIn(t)
        \/ ReadComplete(t, ReadersPayloads)
        \/ Return(t)

\* Concurrent callers that only read; nothing purges.
ReadersSpec == ConcInit /\ [][ReadersNext]_vars

----------------------------------------------------------------------------
(* Enumeration: list_devices, list_interfaces, with_serial_number.         *)

\* dev.vendor_id() == 0x0403
FtdiVendor == 1027

Vendors == {FtdiVendor, 4660}
\* 0x800, 0x900, 0x700, 0x600, and a version list_devices does not know.
Versions == {2048, 2304, 1792, 1536, 1280}
\* dev.serial_number(): a string, or None.
Serials == {"A", "B", "None"}

\* What nusb::list_devices can report of one device.
UsbDevices ==
    [vendor_id : Vendors, device_version : Versions, serial_number : Serials]

RECURSIVE SeqsUpTo(_, _)
SeqsUpTo(S, k) ==
    IF k = 0 THEN {<<>>}
    ELSE LET shorter == SeqsUpTo(S, k - 1)
         IN shorter \cup {Append(s, d) : s \in {x \in shorter : Len(x) = k - 1},
                                          d \in S}

InterfaceInfo(dev, device_type_, num_, kind) ==
    [dev |-> dev, device_type |-> device_type_, num |-> num_, kind |-> kind]

\* The arms of `match version`; an FT4232H has four interfaces.
KnownVersion(version) == version \in {2048, 1792, 2304, 1536}

DeviceInfo(dev) ==
    CASE dev.device_version = 2048 ->
            [dev |-> dev, device_type |-> "FT4232H",
             interfaces |-> [i \in 1..4 |->
                InterfaceInfo(dev, "FT4232H", i - 1,
                              IF i - 1 <= 1 THEN "Mpsse" ELSE "Uart")]]
      [] dev.device_version \in {1792, 2304} ->
            [dev |-> dev, device_type |-> "FT232H",
             interfaces |-> <<InterfaceInfo(dev, "FT232H", 0, "Mpsse")>>]
      [] dev.device_version = 1536 ->
            [dev |-> dev, device_type |-> "FT232H",
             interfaces |-> <<InterfaceInfo(dev, "FT232H", 0, "Uart")>>]

\* What a caller gets who takes every item of list_devices()'s iterator:
\* the items up to the first device of an unknown version, where the map's
\* closure panics.
RECURSIVE list_devices(_)
list_devices(devs) ==
    IF devs = <<>> THEN [items |-> <<>>, panicked |-> FALSE]
    ELSE LET dev == Head(devs) IN
         IF dev.vendor_id # FtdiVendor THEN list_devices(Tail(devs))
         ELSE IF ~KnownVersion(dev.device_version)
              THEN [items |-> <<>>, panicked |-> TRUE]
         ELSE LET rest == list_devices(Tail(devs))
              IN [items |-> <<DeviceInfo(dev)>> \o rest.items,
                  panicked |-> rest.panicked]

\* list_interfaces().find(|i| i.dev.serial_number() == Some(sn)): the lazy
\* scan of the flattened interfaces stops at the first match.
RECURSIVE FindBySerial(_, _)
FindBySerial(devs, sn) ==
    IF devs = <<>> THEN [res |-> "device not found", val |-> <<>>]
    ELSE LET dev == Head(devs) IN
         IF dev.vendor_id # FtdiVendor THEN FindBySerial(Tail(devs), sn)
         ELSE IF ~KnownVersion(dev.device_version)
              THEN [res |-> "panic", val |-> <<>>]
         ELSE IF dev.serial_number = sn
              THEN [res |-> "found", val |-> <<DeviceInfo(dev).interfaces[1]>>]
         ELSE FindBySerial(Tail(devs), sn)

\* Interface::with_serial_number(sn, port); int.open() may fail.
with_serial_number(devs, sn, port, opens) ==
    LET int == FindBySerial(devs, sn)
    IN IF int.res # "found" THEN int
       ELSE IF ~opens THEN [res |-> "open failed", val |-> <<>>]
       ELSE [res |-> "ok", val |-> int.val]

ListDevices ==
    /\ out' = [op |-> "list_devices", arg |-> <<>>,
               res |-> IF list_devices(host).panicked THEN "panic" ELSE "ok",
               val |-> list_devices(host).items]
    /\ UNCHANGED <<stack, read_buffer, lock, pending, bitmode, num, trace, wire,
                   stream, delivered, issued, calls, xfers, device_type, host>>

WithSerialNumber ==
    /\ \E sn \in Serials \ {"None"}, port \in 0..3, opens \in BOOLEAN :
        LET r == with_serial_number(host, sn, port, opens)
        IN out' = [op |-> "with_serial_number", arg |-> <<sn, port>>,
                   res |-> r.res, val |-> r.val]
    /\ UNCHANGED <<stack, read_buffer, lock, pending, bitmode, num, trace, wire,
                   stream, delivered, issued, calls, xfers, device_type, host>>

EnumInit ==
    /\ stack = [t \in Tasks |-> <<>>]
    /\ read_buffer = [buf |-> <<>>, cur |-> 0]
    /\ lock = [l \in {"read_buffer", "ep_in", "ep_out"} |-> Free]
    /\ pending = [e \in {"ep_in", "ep_out"} |-> <<>>]
    /\ bitmode = BitmodeReset
    /\ num = 0
    /\ trace = [t \in Tasks |-> <<>>]
    /\ wire = <<>>
    /\ stream = <<>>
    /\ delivered = <<>>
    /\ issued = [t \in Tasks |-> <<>>]
    /\ calls = 0
    /\ xfers = 0
    /\ device_type = "FT4232H"
    /\ host \in SeqsUpTo(UsbDevices, MaxDevices)
    /\ out = NoCall

EnumNext == ListDevices \/ WithSerialNumber

\* A caller of the enumerator, whatever the host lists.
EnumSpec == EnumInit /\ [][EnumNext]_vars

----------------------------------------------------------------------------
(* Fns of an Interface that await no bulk transfer: open's endpoints,      *)
(* clock_divisor, the vendor control requests.                             *)

DeviceTypes == {"FT4232H", "FT2232C", "FT2232H", "FT232H"}

\* x | 0x80 on a u8.
Or0x80(x) == IF (x \div 128) % 2 = 1 THEN x ELSE x + 128

\* An in-endpoint address that is the out-endpoint's with the IN bit set.
in_endpoint_even(n) == Or0x80((n + 1) * 2)

\* fn in_endpoint(&self) -> u8
in_endpoint(n) == Or0x80(((n + 1) * 2) - 1)

\* fn out_endpoint(&self) -> u8
out_endpoint(n) == (n + 1) * 2

\* InterfaceInfo::open: the addresses of the two endpoints it binds.
OpenEndpoints(n) ==
    [ep_in |-> Or0x80(((n + 1) * 2) - 1), ep_out |-> (n + 1) * 2]

\* `base / frequency - 1` on u32, then `as u16`.  Dividing by zero panics;
\* 0 - 1 panics where overflow is checked and wraps to u32::MAX where it is
\* not, which `as u16` makes 0xFFFF.
Divisor(base, frequency) ==
    IF frequency = 0 THEN {[res |-> "panic", val |-> 0]}
    ELSE IF base \div frequency = 0
         THEN {[res |-> "panic", val |-> 0], [res |-> "ok", val |-> 65535]}
    ELSE {[res |-> "ok", val |-> (base \div frequency - 1) % 65536]}

\* A clock_divisor that keeps divide-by-5 only below 6 MHz.
clock_divisor_below_6MHz(dt, frequency) ==
    IF dt = "FT2232C"
    THEN {[res |-> d.res, val |-> <<d.val, "None">>] :
             d \in Divisor(6000000, frequency)}
    ELSE IF frequency < 6000000
         THEN {[res |-> d.res, val |-> <<d.val, "Some(true)">>] :
                  d \in Divisor(6000000, frequency)}
         ELSE {[res |-> d.res, val |-> <<d.val, "Some(false)">>] :
                  d \in Divisor(30000000, frequency)}

\* fn clock_divisor(&self, frequency: u32) -> (u16, Option<bool>)
clock_divisor(dt, frequency) ==
    IF dt = "FT2232C"
    THEN {[res |-> d.res, val |-> <<d.val, "None">>] :
             d \in Divisor(6000000, frequency)}
    ELSE IF frequency <= 6000000
         THEN {[res |-> d.res, val |-> <<d.val, "Some(true)">>] :
                  d \in Divisor(6000000, frequency)}
         ELSE {[res |-> d.res, val |-> <<d.val, "Some(false)">>] :
                  d \in Divisor(30000000, frequency)}

\* The frequencies callers ask for.
Frequencies ==
    {0, 1, 91, 92, 1000000, 3000000, 6000000, 6000001, 15000000, 30000000,
     30000001}

ControlIn(request, value, index, length) ==
    [kind |-> "control_in", request |-> request, value |-> value,
     index |-> index, data |-> <<length>>]

ControlFns ==
    {"latency_timer", "set_latency_timer", "reset", "purge_rx", "purge_tx",
     "set_bitmode", "status", "set_event_char", "set_error_char"}

\* The arguments callers pass to each.
ControlArgs(fn) ==
    CASE fn = "set_latency_timer" -> {<<16>>}
      [] fn = "set_bitmode" -> {<<0, BitmodeReset>>, <<0, BitmodeMpsse>>}
      [] fn \in {"set_event_char", "set_error_char"} -> {<<13, 0>>, <<13, 1>>}
      [] OTHER -> {<<>>}

\* The packet each control fn of Interface builds for port index port.
ControlRequestPkt(fn, data, port) ==
    CASE fn = "latency_timer" -> ControlIn(10, 0, port + 1, 1)
      [] fn = "set_latency_timer" -> ControlOut(9, data[1], port + 1)
      [] fn = "reset" -> ControlOut(RequestReset, 0, port + 1)
      [] fn = "status" -> ControlIn(5, 0, port + 1, 2)
      [] fn = "set_event_char" -> ControlOut(6, data[1] + data[2] * 256, port)
      [] fn = "set_error_char" -> ControlOut(7, data[1] + data[2] * 256, port)
      [] OTHER -> ControlPkt(fn, data, port)

Open ==
    /\ \E opens \in BOOLEAN :
        out' = [op |-> "open", arg |-> <<num>>,
                res |-> IF opens THEN "ok" ELSE "open failed",
                val |-> IF opens THEN <<OpenEndpoints(num)>> ELSE <<>>]
    /\ UNCHANGED <<stack, read_buffer, lock, pending, bitmode, num, trace, wire,
                   stream, delivered, issued, calls, xfers, device_type, host>>

InEndpoint ==
    /\ out' = [op |-> "in_endpoint", arg |-> <<num>>, res |-> "ok",
               val |-> <<in_endpoint(num)>>]
    /\ UNCHANGED <<stack, read_buffer, lock, pending, bitmode, num, trace, wire,
                   stream, delivered, issued, calls, xfers, device_type, host>>

OutEndpoint ==
    /\ out' = [op |-> "out_endpoint", arg |-> <<num>>, res |-> "ok",
               val |-> <<out_endpoint(num)>>]
    /\ UNCHANGED <<stack, read_buffer, lock, pending, bitmode, num, trace, wire,
                   stream, delivered, issued, calls, xfers, device_type, host>>

ClockDivisor ==
    /\ \E frequency \in Frequencies :
        \E r \in clock_divisor(device_type, frequency) :
            out' = [op |-> "clock_divisor", arg |-> <<frequency>>,
                    res |-> r.res, val |-> r.val]
    /\ UNCHANGED <<stack, read_buffer, lock, pending, bitmode, num, trace, wire,
                   stream, delivered, issued, calls, xfers, device_type, host>>

\* One of the control fns, alone: it builds its packet and awaits the
\* transfer, which the device completes or fails.
ControlRequest ==
    /\ \E fn \in ControlFns :
        \E data \in ControlArgs(fn), status \in {"ok", "err"} :
            out' = [op |-> fn, arg |-> data, res |-> status,
                    val |-> <<ControlRequestPkt(fn, data, num)>>]
    /\ UNCHANGED <<stack, read_buffer, lock, pending, bitmode, num, trace, wire,
                   stream, delivered, issued, calls, xfers, device_type, host>>

FnInit ==
    /\ stack = [t \in Tasks |-> <<>>]
    /\ read_buffer = [buf |-> <<>>, cur |-> 0]
    /\ lock = [l \in {"read_buffer", "ep_in", "ep_out"} |-> Free]
    /\ pending = [e \in {"ep_in", "ep_out"} |-> <<>>]
    /\ bitmode = BitmodeReset
    /\ num \in 0..3
    /\ trace = [t \in Tasks |-> <<>>]
    /\ wire = <<>>
    /\ stream = <<>>
    /\ delivered = <<>>
    /\ issued = [t \in Tasks |-> <<>>]
    /\ calls = 0
    /\ xfers = 0
    /\ device_type \in DeviceTypes
    /\ host = <<>>
    /\ out = NoCall

FnNext == Open \/ InEndpoint \/ OutEndpoint \/ ClockDivisor \/ ControlRequest

\* A caller of the fns that await no bulk transfer, for every port index
\* and chip family.
FnSpec == FnInit /\ [][FnNext]_vars

----------------------------------------------------------------------------
(* Claims about read_all with one caller.                                  *)

IsPrefix(s, r) == Len(s) <= Len(r) /\ s = SubSeq(r, 1, Len(s))

\* C1: the bytes delivered by successive read_all calls, followed by the
\* unconsumed tail of the read-ahead buffer, are exactly the payload
\* received so far (so the delivered bytes are a prefix of the payload
\* stream, nothing dropped, duplicated or reordered), and no byte of a
\* status header is among them.
C1_DeliveredIsPayloadPrefix ==
    /\ stream = delivered \o Unconsumed
    /\ IsPrefix(delivered, stream)
    /\ \A i \in 1..Len(delivered) : delivered[i] \in Bytes

\* A second call has taken bytes the first left in the read-ahead buffer and
\* then more from a new transfer, which again left bytes behind.
C1_Witness ==
    /\ calls >= 2
    /\ Len(delivered) >= 3
    /\ Unconsumed # <<>>
    /\ Depth("t1") = 1
    /\ Top("t1").pc = "ret"
    /\ Top("t1").n >= 2
    /\ Len(trace["t1"]) > Top("t1").mark

\* C2: a read_all that returns success has written all n bytes of the span.
C2_NeverShort ==
    \A t \in Tasks :
        (Depth(t) > 0 /\ Top(t).fn = "read_all" /\ Top(t).pc = "ret"
            /\ Top(t).res = "ok")
        => Len(Top(t).data) = Top(t).n

\* A read_all of at least 3 bytes returns after more than one transfer.
C2_Witness ==
    /\ Running("t1", "read_all", "ret")
    /\ Top("t1").res = "ok"
    /\ Top("t1").n >= 3
    /\ Len(trace["t1"]) >= Top("t1").mark + 2

\* C3: a read_all one of whose bulk-in transfers has completed with an error
\* status is returning an error (and so issues no further transfer).
C3_ErrorFailsRead ==
    \A t \in Tasks :
        (Depth(t) > 0 /\ Top(t).fn = "read_all" /\ Top(t).failed)
        => (Top(t).pc = "ret" /\ Top(t).res = "err")

\* C4: a read_all of n bytes that finds at least n unconsumed bytes in the
\* read-ahead buffer returns them, the first n, advances the cursor by n
\* and sends the device nothing.
C4_ServedFromBuffer ==
    [][\A t \in Tasks :
        (Running(t, "read_all", "lock_read_buffer") /\ Top(t).n <= Len(Unconsumed)
            /\ stack'[t] # stack[t])
        => /\ stack'[t][Depth(t)].pc = "ret"
           /\ stack'[t][Depth(t)].res = "ok"
           /\ stack'[t][Depth(t)].data = SubSeq(Unconsumed, 1, Top(t).n)
           /\ read_buffer'.buf = read_buffer.buf
           /\ read_buffer'.cur = read_buffer.cur + Top(t).n
           /\ trace' = trace /\ pending' = pending /\ xfers' = xfers]_vars

\* A read_all of 1 byte has been served from a buffer that held 2: it sent
\* nothing and 1 byte stays buffered.
C4_Witness ==
    /\ Running("t1", "read_all", "ret")
    /\ Top("t1").n = 1
    /\ Len(Top("t1").data) = 1
    /\ Len(trace["t1"]) = Top("t1").mark
    /\ read_buffer.cur = 1
    /\ Len(Unconsumed) = 1

----------------------------------------------------------------------------
(* Claims about the MPSSE driver and purge_all with one caller.            *)

\* What task t has sent the device since position mark of its trace.
Ops(t, mark) == SubSeq(trace[t], mark + 1, Len(trace[t]))

\* Reset with value 1, one bulk-in of max_packet_size, Reset with value 2.
PurgeOps ==
    << ControlOut(0, 1, num + 1), BulkIn(max_packet_size), ControlOut(0, 2, num + 1) >>

\* C5: synchronize_mpsse sends 0x84 0xAB 0x85 as its one write and first
\* operation, then only reads; once the write has succeeded it has read
\* exactly 2 bytes; and it succeeds exactly when those are 0xFA 0xAB.
C5_HandshakeAcceptance ==
    \A t \in Tasks :
        Running(t, "synchronize_mpsse", "ret") =>
            LET f == Top(t)
                ops == Ops(t, f.mark)
                read == SubSeq(delivered, f.dmark + 1, Len(delivered))
            IN /\ Len(ops) >= 1
               /\ ops[1] = BulkOut(<<132, 171, 133>>)
               /\ \A i \in 2..Len(ops) : ops[i].kind = "bulk_in"
               /\ f.data = read
               /\ Len(read) \in {0, 2}
               /\ (wire # <<>> /\ wire[Len(wire)].status = "ok") => Len(read) = 2
               /\ f.res \in {"ok", "err"}
               /\ f.res = "ok" <=> read = <<250, 171>>

\* A handshake is rejected whose answer has the right first byte and the
\* wrong second one.
C5_Witness ==
    /\ Running("t1", "synchronize_mpsse", "ret")
    /\ Top("t1").data = <<250, 250>>
    /\ Top("t1").res = "err"

\* C6: a successful initialize_mpsse has sent the device, in this order and
\* nothing else: a purge, SetBitmode Reset (0x0000), SetBitmode Mpsse
\* (0x0200), a purge, the handshake's write, the handshake's bulk-in reads,
\* a purge.
C6_InitializeOrder ==
    \A t \in Tasks :
        (Running(t, "initialize_mpsse", "ret") /\ Top(t).res = "ok") =>
            LET ops == Ops(t, Top(t).mark)
                n == Len(ops)
            IN /\ n >= 12
               /\ SubSeq(ops, 1, 3) = PurgeOps
               /\ ops[4] = ControlOut(11, 0, num + 1)
               /\ ops[5] = ControlOut(11, 512, num + 1)
               /\ SubSeq(ops, 6, 8) = PurgeOps
               /\ ops[9] = BulkOut(<<132, 171, 133>>)
               /\ \A i \in 10..(n - 3) : ops[i] = BulkIn(max_packet_size)
               /\ SubSeq(ops, n - 2, n) = PurgeOps
               /\ bitmode = 2

\* An initialize_mpsse has succeeded whose handshake read needed a transfer.
C6_Witness ==
    /\ Running("t1", "initialize_mpsse", "ret")
    /\ Top("t1").res = "ok"
    /\ Len(trace["t1"]) > 12

\* C7: an initialize_mpsse that fails, called on a chip in Reset mode, does
\* not leave the chip switched to MPSSE mode.
C7_AllOrNothing ==
    \A t \in Tasks :
        (Running(t, "initialize_mpsse", "ret") /\ Top(t).res = "err"
            /\ calls = 1)
        => bitmode # 2

\* C8: what a purge_all call has sent when it returns is the purge sequence,
\* whole when it succeeds and cut at the failed transfer when it fails,
\* whatever came before the call.
C8_PurgeSequence ==
    \A t \in Tasks :
        (Depth(t) > 0 /\ Top(t).fn = "purge_all" /\ Top(t).pc = "ret") =>
            LET ops == Ops(t, Top(t).mark)
            IN /\ IsPrefix(ops, PurgeOps)
               /\ Top(t).res = "ok" => ops = PurgeOps
               /\ Top(t).res = "err" => ops # <<>>

\* The third purge_all of an initialize_mpsse, after the mode switches and
\* the handshake, has sent what the first did.
C8_Witness ==
    /\ Depth("t1") = 2
    /\ stack["t1"][1].fn = "initialize_mpsse"
    /\ stack["t1"][1].n = 6
    /\ Running("t1", "purge_all", "ret")
    /\ Top("t1").res = "ok"
    /\ Ops("t1", Top("t1").mark) = SubSeq(trace["t1"], 1, 3)

----------------------------------------------------------------------------
(* Claims about concurrent callers of one transport.                       *)

\* The task holding Mutex l is inside one of fns.
HeldWithin(l, fns) ==
    lock[l] = Free \/ (Depth(lock[l]) > 0 /\ Top(lock[l]).fn \in fns)

\* C9: a write_all waits only for other write_alls, never for a read: the
\* Mutex it awaits is free or held by a write_all, and the bulk-out transfer
\* it awaits is its own and first in the out-endpoint's queue; likewise a
\* read_all waits only for read_all or purge_rx, never for a write_all, and
\* the bulk-in transfer it awaits is its own.
C9_FullDuplex ==
    \A t \in Tasks :
        /\ Running(t, "write_all", "lock_ep_out")
            => HeldWithin(WriteGuard, {"write_all"})
        /\ Running(t, "write_all", "next_complete")
            => /\ lock[WriteGuard] = t
               /\ pending["ep_out"] # <<>>
               /\ Head(pending["ep_out"]).by = t
        /\ Running(t, "read_all", "lock_read_buffer")
            => HeldWithin("read_buffer", {"read_all"})
        /\ Running(t, "read_all", "lock_ep_in")
            => HeldWithin("ep_in", {"read_all", "purge_rx"})
        /\ Running(t, "read_all", "next_complete")
            => /\ lock["ep_in"] = t
               /\ pending["ep_in"] # <<>>
               /\ Head(pending["ep_in"]).by = t

\* A read_all and a write_all each have their transfer in flight at once.
C9_Witness ==
    /\ Running("t1", "read_all", "next_complete")
    /\ Running("t2", "write_all", "next_complete")
    /\ pending["ep_in"] # <<>>
    /\ pending["ep_out"] # <<>>

\* The bufs of the bulk-out transfers completed for task t, in order.
WireOf(t) ==
    LET w == SelectSeq(wire, LAMBDA x : x.by = t)
    IN [i \in 1..Len(w) |-> w[i].data]

\* C10: the bulk-out transfers the device has got for each caller are that
\* caller's write_all bufs, one transfer per call, each buf whole and
\* unchanged, in the order of the calls; only a call still running has no
\* transfer yet; and no two bulk-out transfers are in flight at once.
C10_WritesInOrder ==
    /\ Len(pending["ep_out"]) <= 1
    /\ \A t \in Tasks :
        /\ IsPrefix(WireOf(t), issued[t])
        /\ Len(WireOf(t)) >= Len(issued[t]) - 1
        /\ (Depth(t) = 0 \/ Top(t).pc = "ret") => WireOf(t) = issued[t]
        /\ Running(t, "write_all", "next_complete")
            => Head(pending["ep_out"]).data = Top(t).data

\* Two callers' writes have reached the device interleaved call by call:
\* one of t1, one of t2, then a different one of t1.
C10_Witness ==
    /\ Len(wire) = 3
    /\ wire[1].by = "t1" /\ wire[2].by = "t2" /\ wire[3].by = "t1"
    /\ wire[1].data # wire[3].data
    /\ issued["t1"] = <<wire[1].data, wire[3].data>>

----------------------------------------------------------------------------
(* Claims about enumeration.                                               *)

\* C11: a with_serial_number(sn, port) that succeeds has opened the interface
\* whose port index is the requested port, on a device whose serial number
\* is sn.
C11_OpensRequestedPort ==
    (out.op = "with_serial_number" /\ out.res = "ok")
    => /\ out.val[1].num = out.arg[2]
       /\ out.val[1].dev.serial_number = out.arg[1]

\* C12: list_devices never aborts: it produces every device of vendor 0x0403
\* and of a version it knows, in the host's order, whatever other devices
\* the host lists before or after them.
C12_UnsupportedDeviceSkipped ==
    out.op = "list_devices"
    => /\ out.res = "ok"
       /\ [i \in 1..Len(out.val) |-> out.val[i].dev]
            = SelectSeq(host, LAMBDA d : d.vendor_id = 1027
                          /\ d.device_version \in {2048, 2304, 1792, 1536})

----------------------------------------------------------------------------
(* Claims about the fns that await no bulk transfer.                       *)

\* The claim's clock base for a chip family and a frequency.
ClaimedBase(dt, f) ==
    IF dt = "FT2232C" \/ f <= 6000000 THEN 6000000 ELSE 30000000

ClaimedFlag(dt, f) ==
    IF dt = "FT2232C" THEN "None"
    ELSE IF f <= 6000000 THEN "Some(true)" ELSE "Some(false)"

\* C13: for every frequency > 0 with base/frequency - 1 in 0..65535,
\* clock_divisor returns (6_000_000/frequency - 1, None) on FT2232C and, on
\* the H families, (6_000_000/frequency - 1, Some(true)) up to 6 MHz and
\* (30_000_000/frequency - 1, Some(false)) above; the claim's examples come
\* out as it says; and a frequency whose quotient is too big for 16 bits is
\* neither rejected nor clamped to 65535: the quotient minus one is cut to
\* its low 16 bits.
C13_ClockDivisor ==
    out.op = "clock_divisor" =>
        LET f == out.arg[1]
            q == ClaimedBase(device_type, f) \div f
        IN /\ (f > 0 /\ q >= 1 /\ q - 1 <= 65535)
                => /\ out.res = "ok"
                   /\ out.val = <<q - 1, ClaimedFlag(device_type, f)>>
           /\ (f > 0 /\ q - 1 > 65535)
                => /\ out.res = "ok"
                   /\ out.val = <<(q - 1) % 65536, ClaimedFlag(device_type, f)>>
           /\ (device_type = "FT232H" /\ f = 6000000) => out.val = <<0, "Some(true)">>
           /\ (device_type = "FT232H" /\ f = 3000000) => out.val = <<1, "Some(true)">>
           /\ (device_type = "FT232H" /\ f = 30000000) => out.val = <<0, "Some(false)">>
           /\ (device_type = "FT232H" /\ f = 15000000) => out.val = <<1, "Some(false)">>
           /\ (device_type = "FT2232C" /\ f = 1000000) => out.val = <<5, "None">>

\* An FT4232H asked for exactly 6 MHz keeps divide-by-5 with divisor 0.
C13_Witness ==
    /\ out.op = "clock_divisor"
    /\ device_type = "FT4232H"
    /\ out.arg = <<6000000>>
    /\ out.res = "ok"
    /\ out.val = <<0, "Some(true)">>

\* C14: for every port index p in 0..3, open binds bulk-in endpoint
\* ((p+1)*2-1)|0x80 and bulk-out endpoint (p+1)*2 (port 0: 0x81 and 0x02,
\* port 3: 0x87 and 0x08), and in_endpoint and out_endpoint return the
\* same two addresses.
C14_Endpoints ==
    LET p == num
        claimed_in == 128 + (p + 1) * 2 - 1
        claimed_out == (p + 1) * 2
    IN /\ (out.op = "open" /\ out.res = "ok")
            => /\ out.val[1].ep_in = claimed_in
               /\ out.val[1].ep_out = claimed_out
               /\ p = 0 => (out.val[1].ep_in = 129 /\ out.val[1].ep_out = 2)
               /\ p = 3 => (out.val[1].ep_in = 135 /\ out.val[1].ep_out = 8)
       /\ out.op = "in_endpoint"
            => out.val[1] = claimed_in /\ out.val[1] = OpenEndpoints(p).ep_in
       /\ out.op = "out_endpoint"
            => out.val[1] = claimed_out /\ out.val[1] = OpenEndpoints(p).ep_out

\* Port 3 has been opened, bound to 0x87 and 0x08.
C14_Witness ==
    /\ out.op = "open"
    /\ out.res = "ok"
    /\ num = 3
    /\ out.val = <<[ep_in |-> 135, ep_out |-> 8]>>

\* C18: every vendor control transfer issued for port index p carries
\* index p + 1.
C18_ControlIndex ==
    out.op \in ControlFns => out.val[1].index = num + 1

----------------------------------------------------------------------------
(* Claims about the read-ahead buffer and the locks.                       *)

\* C15: the cursor never passes the end of the read-ahead buffer, and while
\* a read_all is about to issue a bulk-in transfer or awaits one the buffer
\* is empty with cursor 0: it was reset before the first transfer, and what
\* a transfer leaves over is appended to an empty buffer.
C15_BufferInvariant ==
    /\ read_buffer.cur <= Len(read_buffer.buf)
    /\ \A t \in Tasks :
        (Depth(t) > 0 /\ Top(t).fn = "read_all"
            /\ Top(t).pc \in {"lock_ep_in", "next_complete"})
        => read_buffer = [buf |-> <<>>, cur |-> 0]

\* A read_all has taken what the buffer held, needs more, and is about to
\* issue its first transfer with the buffer reset.
C15_Witness ==
    /\ Running("t1", "read_all", "lock_ep_in")
    /\ Len(Top("t1").data) >= 1
    /\ Len(trace["t1"]) = Top("t1").mark
    /\ read_buffer = [buf |-> <<>>, cur |-> 0]
    /\ delivered = stream

\* C16: on each endpoint at most one transfer is in flight, and while one
\* is, the endpoint's Mutex is held by the task that submitted it.
C16_OneTransferInFlight ==
    \A e \in {"ep_in", "ep_out"} :
        /\ Len(pending[e]) <= 1
        /\ pending[e] # <<>>
            => /\ lock[e] = Head(pending[e]).by
               /\ Depth(lock[e]) > 0
               /\ Top(lock[e]).pc = "next_complete"

\* A purge_rx inside purge_all has its bulk-in in flight while a read_all of
\* the other caller waits for the in-endpoint.
C16_Witness ==
    /\ Running("t1", "purge_rx", "next_complete")
    /\ Running("t2", "read_all", "lock_ep_in")
    /\ Len(pending["ep_in"]) = 1
    /\ lock["ep_in"] = "t1"

\* C17: while a read_all holds the read-ahead buffer and still needs bytes,
\* no other task submits a bulk-in transfer on the in-endpoint.
C17_BufferSharesInScope ==
    [][\A t \in Tasks :
        (Depth(t) > 0 /\ Top(t).fn = "read_all"
            /\ Top(t).pc \in {"lock_ep_in", "next_complete"})
        => ~(/\ Len(pending'["ep_in"]) > Len(pending["ep_in"])
             /\ pending'["ep_in"][Len(pending'["ep_in"])].by # t)]_vars

\* C19: when a purge_rx or a purge_all has returned successfully the
\* read-ahead buffer holds no unconsumed byte, and the two bytes a handshake
\* inside initialize_mpsse has read came from bulk-in transfers of that
\* handshake.
C19_PurgeClearsReadAhead ==
    \A t \in Tasks :
        /\ (Depth(t) > 0 /\ Top(t).fn \in {"purge_rx", "purge_all"}
                /\ Top(t).pc = "ret" /\ Top(t).res = "ok")
            => Unconsumed = <<>>
        /\ (Depth(t) = 2 /\ Running(t, "synchronize_mpsse", "ret")
                /\ Top(t).data # <<>>)
            => \E i \in (Top(t).mark + 1)..Len(trace[t]) :
                    trace[t][i].kind = "bulk_in"

\* The Mutex task t is waiting to lock, if any.
Awaits(t) ==
    IF Depth(t) = 0 THEN "none"
    ELSE CASE Top(t).pc = "lock_read_buffer" -> "read_buffer"
           [] Top(t).pc = "lock_ep_in" -> "ep_in"
           [] Top(t).pc = "lock_ep_out" -> "ep_out"
           [] OTHER -> "none"

Blocked(t) == Awaits(t) # "none" /\ lock[Awaits(t)] # Free

Held(t) == {l \in DOMAIN lock : lock[l] = t}

\* C20: no set of callers waits on each other's locks: in every state each
\* set of tasks has a member that is not waiting for a Mutex held inside
\* the set; a held Mutex is held by a task inside a call, never left
\* locked by a call that returned; and the locks are requested in one
\* order: read_buffer and ep_out by a task holding nothing, ep_in by a task
\* holding at most read_buffer.
C20_DeadlockFree ==
    /\ \A S \in (SUBSET Tasks) \ {{}} :
        \E t \in S : ~(Blocked(t) /\ lock[Awaits(t)] \in S)
    /\ \A l \in DOMAIN lock : lock[l] # Free => Depth(lock[l]) > 0
    /\ \A t \in Tasks :
        /\ Awaits(t) \in {"read_buffer", "ep_out"} => Held(t) = {}
        /\ Awaits(t) = "ep_in" => Held(t) \subseteq {"read_buffer"}

\* A read_all waits for the read-ahead buffer, held by a read_all of the
\* other caller that also holds the in-endpoint and awaits its transfer.
C20_Witness ==
    /\ Running("t1", "read_all", "lock_read_buffer")
    /\ Blocked("t1")
    /\ Held("t2") = {"read_buffer", "ep_in"}
    /\ Running("t2", "read_all", "next_complete")

----------------------------------------------------------------------------
(* Claims about concurrent readers.                                        *)

\* The read_all of task t has the read-ahead buffer.
Reading(t) ==
    Depth(t) > 0 /\ Top(t).fn = "read_all" /\ Top(t).pc # "lock_read_buffer"

\* C21: concurrent read_all calls are serialized for their whole duration:
\* at most one call at a time is past taking the read-ahead buffer; the
\* bytes that call has received are the last bytes delivered, so no other
\* call's bytes lie among them; and the bytes delivered, followed by what
\* the buffer holds unconsumed, are the payload stream in arrival order, so
\* each call's bytes are one contiguous run of it and the leftover of one
\* call is what the next call receives first.
C21_ReadsSerialized ==
    /\ \A t \in Tasks, u \in Tasks : (Reading(t) /\ Reading(u)) => t = u
    /\ \A t \in Tasks :
        Reading(t) =>
            /\ Len(Top(t).data) <= Len(delivered)
            /\ Top(t).data = SubSeq(delivered,
                                    Len(delivered) - Len(Top(t).data) + 1,
                                    Len(delivered))
    /\ stream = delivered \o Unconsumed

\* A read_all of 2 bytes got the byte the other caller's read_all left in
\* the buffer, then the first byte of its own transfer, while the other
\* caller's next read_all waits.
C21_Witness ==
    /\ Running("t2", "read_all", "ret")
    /\ Top("t2").data = <<250, 171>>
    /\ Len(trace["t2"]) = 1
    /\ stream = <<171, 250, 171, 250>>
    /\ Unconsumed = <<250>>
    /\ Running("t1", "read_all", "lock_read_buffer")

====
